---- MODULE Spec2Model ----
(***************************************************************************)
(* A model of the joins library (innerJoin, outerJoin, leftJoin,           *)
(* rightJoin, leftExcludingJoin, rightExcludingJoin, outerExcludingJoin)   *)
(* and of the example script that calls every join on the same two arrays. *)
(*                                                                         *)
(* The JavaScript heap is explicit: objs holds the record objects, arrs    *)
(* the array objects, and a reference is the position of an object in its  *)
(* heap.  Every write of the library is a write to the object a variable   *)
(* refers to, so aliasing and mutation of the inputs are expressible.      *)
(***************************************************************************)
EXTENDS Integers, Sequences, FiniteSets, TLC

\* Longest left-hand and right-hand input arrays that are explored.
MaxLeft == 2
MaxRight == 2

(***************************************************************************)
(* JavaScript values.  Absent marks a property a record does not own;      *)
(* reading it gives Undefined.                                             *)
(***************************************************************************)
Undefined == [t |-> "undefined", n |-> 0, s |-> ""]
Absent == [t |-> "absent", n |-> 0, s |-> ""]
Num(n) == [t |-> "number", n |-> n, s |-> ""]
Str(s) == [t |-> "string", n |-> 0, s |-> s]

\* The null reference: null in an array, the absence marker [ null ] of
\* leftIterate, and the undefined a select callback returns when it skips.
Null == 0

\* Number::toString for the small non-negative integers used as keys.
NumToString(n) ==
    CASE n = 0 -> "0" [] n = 1 -> "1" [] n = 2 -> "2" [] n = 3 -> "3"
      [] n = 4 -> "4" [] n = 5 -> "5" [] n = 6 -> "6" [] n = 7 -> "7"
      [] n = 8 -> "8" [] OTHER -> "9"

\* ToNumber of a string, for the numerals the keys use: a digit, or a digit
\* after a zero; -1 stands for NaN.
StringToNumber(str) ==
    IF \E n \in 0..9 : str \in {NumToString(n), "0" \o NumToString(n)}
    THEN CHOOSE n \in 0..9 : str \in {NumToString(n), "0" \o NumToString(n)}
    ELSE -1

\* a == b of JavaScript on key values: identity on values of one type,
\* ToNumber of the string between a number and a string, and false between
\* undefined and a number or a string.
LooselyEqual(a, b) ==
    CASE a.t = b.t -> a = b
      [] a.t = "number" /\ b.t = "string" -> a.n = StringToNumber(b.s)
      [] a.t = "string" /\ b.t = "number" -> StringToNumber(a.s) = b.n
      [] OTHER -> FALSE

\* ToPropertyKey reading a numeric string as the number it denotes, so that
\* "01" and 1 name the same property.
ToPropertyKeyNumeric(v) ==
    CASE v.t = "number" -> NumToString(v.n)
      [] v.t = "string" ->
            IF StringToNumber(v.s) >= 0 THEN NumToString(StringToNumber(v.s))
            ELSE v.s
      [] OTHER -> "undefined"

\* ToPropertyKey: what index[key] does to a key that is not a string.
ToPropertyKey(v) ==
    CASE v.t = "number" -> NumToString(v.n)
      [] v.t = "string" -> v.s
      [] OTHER -> "undefined"

\* Field names of the example records and of the custom merge's output.
Fields == {"accountId", "name", "pid", "loc", "tag",
           "propertId", "accountRep", "address"}

EmptyRecord == [f \in Fields |-> Absent]

\* record[prop]: an own property's value, or undefined.
Get(rec, prop) == IF rec[prop] = Absent THEN Undefined ELSE rec[prop]

\* The heap: H.objs are the record objects, H.arrs the array objects.
\* Allocation appends, so a fresh reference is one past the heap's length.
NewObject(H) == Len(H.objs) + 1
NewArray(H) == Len(H.arrs) + 1
AllocObject(H, rec) == [H EXCEPT !.objs = Append(@, rec)]
AllocArray(H) == [H EXCEPT !.arrs = Append(@, <<>>)]
Push(H, arr, ref) == [H EXCEPT !.arrs[arr] = Append(@, ref)]

\* What a call (a callback or a join) leaves: the heap, whether it threw,
\* and the reference it returned (Null when it threw or returned undefined).
Return(H, ref) == [H |-> H, thrown |-> FALSE, val |-> ref]
Throw(H) == [H |-> H, thrown |-> TRUE, val |-> Null]

(***************************************************************************)
(* var index = []: the index is an array used as a map.  Besides the       *)
(* groups stored under property keys it has the own property length and    *)
(* inherits the members of Array.prototype.                                *)
(***************************************************************************)
ArrayMembers == {"push", "forEach", "constructor"}

IsArrayIndex(key) == \E n \in 0..9 : key = NumToString(n)
ArrayIndexOf(key) == CHOOSE n \in 0..9 : key = NumToString(n)

\* groups maps each property key that was assigned a group to that group.
EmptyIndex == [groups |-> [k \in {} |-> <<>>], length |-> 0]

\* index[key], tagged by the kind of value the read gives.
IndexGet(index, key) ==
    IF key = "length" THEN [t |-> "number", n |-> index.length, a |-> <<>>]
    ELSE IF key \in DOMAIN index.groups
    THEN [t |-> "array", n |-> 0, a |-> index.groups[key]]
    ELSE IF key \in ArrayMembers THEN [t |-> "function", n |-> 0, a |-> <<>>]
    ELSE [t |-> "undefined", n |-> 0, a |-> <<>>]

Truthy(v) == v.t \in {"array", "function"} \/ (v.t = "number" /\ v.n # 0)

\* IndexAdd with index[key] = [ row ] in place of the push: a later record
\* with the same key replaces the group.
IndexAddOverwrite(index, key, row) ==
    IF key = "length" \/ key \in ArrayMembers
    THEN [thrown |-> TRUE, index |-> index]
    ELSE [thrown |-> FALSE,
          index |-> [groups |-> [k \in DOMAIN index.groups \cup {key} |->
                                    IF k # key THEN index.groups[k] ELSE <<row>>],
                     length |-> IF IsArrayIndex(key) /\ ArrayIndexOf(key) + 1 > index.length
                                THEN ArrayIndexOf(key) + 1 ELSE index.length]]

\* IndexAdd with unshift in place of push: a group in reverse order.
IndexAddUnshift(index, key, row) ==
    IF key = "length" \/ key \in ArrayMembers
    THEN [thrown |-> TRUE, index |-> index]
    ELSE [thrown |-> FALSE,
          index |-> [groups |-> [k \in DOMAIN index.groups \cup {key} |->
                                    IF k # key THEN index.groups[k]
                                    ELSE IF IndexGet(index, key).t = "array"
                                    THEN <<row>> \o index.groups[key]
                                    ELSE <<row>>],
                     length |-> IF IsArrayIndex(key) /\ ArrayIndexOf(key) + 1 > index.length
                                THEN ArrayIndexOf(key) + 1 ELSE index.length]]

\* index[key] = index[key] || []; index[key].push(row);
\* the push throws a TypeError when index[key] is not an array: under the key
\* "length" (the assignment sets the length, the read gives a number) and
\* under the name of an inherited member (the read gives that function).
IndexAdd(index, key, row) ==
    IF key = "length" \/ key \in ArrayMembers
    THEN [thrown |-> TRUE, index |-> index]
    ELSE [thrown |-> FALSE,
          index |-> [groups |-> [k \in DOMAIN index.groups \cup {key} |->
                                    IF k # key THEN index.groups[k]
                                    ELSE IF IndexGet(index, key).t = "array"
                                    THEN Append(index.groups[key], row)
                                    ELSE <<row>>],
                     length |-> IF IsArrayIndex(key) /\ ArrayIndexOf(key) + 1 > index.length
                                THEN ArrayIndexOf(key) + 1 ELSE index.length]]

(***************************************************************************)
(* The merge callbacks.                                                    *)
(***************************************************************************)
\* for (prop in from) { if (from.hasOwnProperty(prop)) to[prop] = from[prop]; }
CopyOwn(H, from, to) ==
    IF from = Null THEN H
    ELSE [H EXCEPT !.objs[to] = [f \in Fields |->
              IF H.objs[from][f] # Absent THEN H.objs[from][f] ELSE @[f]]]

\* defaultMerge copying right first and left second: left wins.
defaultMergeLeftWins(H, left, right) ==
    LET record == NewObject(H)
        H1 == AllocObject(H, EmptyRecord)
        H2 == CopyOwn(H1, right, record)
        H3 == CopyOwn(H2, left, record)
    IN  Return(H3, record)

\* defaultMerge with var record = left: it copies right into left itself.
defaultMergeInPlace(H, left, right) == Return(CopyOwn(H, right, left), left)

\* function defaultMerge(left, right)
defaultMerge(H, left, right) ==
    LET record == NewObject(H)
        H1 == AllocObject(H, EmptyRecord)
        H2 == CopyOwn(H1, left, record)
        H3 == CopyOwn(H2, right, record)
    IN  Return(H3, record)

\* The custom merge of the example script:
\* { accountId: peop.accountId, propertId: prop.pid,
\*   accountRep: peop.name, address: prop.loc }
customMerge(H, peop, prop) ==
    Return(AllocObject(H, [EmptyRecord EXCEPT
                              !["accountId"] = Get(H.objs[peop], "accountId"),
                              !["propertId"] = Get(H.objs[prop], "pid"),
                              !["accountRep"] = Get(H.objs[peop], "name"),
                              !["address"] = Get(H.objs[prop], "loc")]),
           NewObject(H))

\* The callbacks a caller passes as merge: "undefined" when the argument is
\* omitted, the example's custom merge, a merge that skips a pair whose
\* right side has no loc (it returns undefined), and two merges that
\* dereference a property of one side (prop.loc.length, peop.name.length)
\* and so throw a TypeError when that side is the empty record.
ApplyMerge(fn, H, left, right) ==
    CASE fn = "undefined" -> defaultMerge(H, left, right)
      [] fn = "custom" -> customMerge(H, left, right)
      [] fn = "needsLoc" ->
            IF Get(H.objs[right], "loc") = Undefined THEN Return(H, Null)
            ELSE customMerge(H, left, right)
      [] fn = "derefLoc" ->
            IF Get(H.objs[right], "loc") = Undefined THEN Throw(H)
            ELSE customMerge(H, left, right)
      [] OTHER ->
            IF Get(H.objs[left], "name") = Undefined THEN Throw(H)
            ELSE customMerge(H, left, right)

\* A merge argument: the callback fn, or with swap the callback
\* function(a, b) { return fn(b, a); }.
Merge(fn) == [fn |-> fn, swap |-> FALSE]
Swapped(m) == [m EXCEPT !.swap = ~@]

\* (merge || defaultMerge)(left, right)
CallMerge(merge, H, left, right) ==
    ApplyMerge(merge.fn, H, IF merge.swap THEN right ELSE left,
               IF merge.swap THEN left ELSE right)

\* x || {} evaluated in heap H: the heap afterwards.
OrEmptyHeap(H, x) == IF x # Null THEN H ELSE AllocObject(H, EmptyRecord)
\* x || {} evaluated in heap H: the reference it gives.
OrEmptyRef(H, x) == IF x # Null THEN x ELSE NewObject(H)

(***************************************************************************)
(* The select callbacks.  A callback is the value [fn, pass, merge]: fn    *)
(* names the join whose function expression it is, merge is the merge that *)
(* join closed over, and pass tells whether leftIterate got it directly or *)
(* wrapped by leftRightIterate for its left or its right pass.             *)
(***************************************************************************)
\* innerJoin: function(left, right) { if (left && right) return merge(left, right); }
innerJoinSelect(merge, H, left, right) ==
    IF left # Null /\ right # Null THEN CallMerge(merge, H, left, right)
    ELSE Return(H, Null)

\* outerJoin: function(left, right) { return merge(left || {}, right || {}); }
outerJoinSelect(merge, H, left, right) ==
    CallMerge(merge, OrEmptyHeap(OrEmptyHeap(H, left), right),
              OrEmptyRef(H, left), OrEmptyRef(OrEmptyHeap(H, left), right))

\* leftJoin passing right on as it is: merge(left, right).  The default
\* merge copies nothing from null, a custom merge reads a property of it.
leftJoinSelectMatchedOnly(merge, H, left, right) ==
    IF right # Null THEN CallMerge(merge, H, left, right) ELSE Return(H, Null)

\* leftJoin: function(left, right) { return merge(left, right || {}); }
leftJoinSelect(merge, H, left, right) ==
    CallMerge(merge, OrEmptyHeap(H, right), left, OrEmptyRef(H, right))

\* rightJoin passing the callback's arguments on in the callback's order:
\* merge(right, left || {}).
rightJoinSelectUnswapped(merge, H, right, left) ==
    CallMerge(merge, OrEmptyHeap(H, left), right, OrEmptyRef(H, left))

\* rightJoin: function(right, left) { return merge(left || {}, right); }
rightJoinSelect(merge, H, right, left) ==
    CallMerge(merge, OrEmptyHeap(H, left), OrEmptyRef(H, left), right)

\* leftExcludingJoin testing only left: every pair gives merge(left, {}).
leftExcludingJoinSelectUntested(merge, H, left, right) ==
    IF left # Null
    THEN CallMerge(merge, AllocObject(H, EmptyRecord), left, NewObject(H))
    ELSE Return(H, Null)

\* leftExcludingJoin:
\* function(left, right) { if (left && !right) return merge(left, {}); }
leftExcludingJoinSelect(merge, H, left, right) ==
    IF left # Null /\ right = Null
    THEN CallMerge(merge, AllocObject(H, EmptyRecord), left, NewObject(H))
    ELSE Return(H, Null)

\* rightExcludingJoin:
\* function(right, left) { if (right && !left) return merge({}, right); }
rightExcludingJoinSelect(merge, H, right, left) ==
    IF right # Null /\ left = Null
    THEN CallMerge(merge, AllocObject(H, EmptyRecord), NewObject(H), right)
    ELSE Return(H, Null)

\* outerExcludingJoin testing only !right: the second pass emits nothing.
outerExcludingJoinSelectLeftOnly(merge, H, left, right) ==
    IF right = Null THEN outerJoinSelect(merge, H, left, right) ELSE Return(H, Null)

\* outerExcludingJoin: function(left, right) {
\*     if (!left || !right) return merge(left || {}, right || {}); }
outerExcludingJoinSelect(merge, H, left, right) ==
    IF left = Null \/ right = Null THEN outerJoinSelect(merge, H, left, right)
    ELSE Return(H, Null)

Select(fn, merge) == [fn |-> fn, pass |-> "direct", merge |-> merge]

\* The second version of joins.js has no defaultMerge and calls
\* merge(left, right): a TypeError when merge was omitted.
CallMerge2(merge, H, left, right) ==
    IF merge.fn = "undefined" THEN Throw(H) ELSE CallMerge(merge, H, left, right)

\* innerJoin of the second version: function(left, right) {
\*     if (left && right && (left[leftKey] == right[rightKey]))
\*         return merge(left, right); }
\* keys holds the leftKey and rightKey the function expression closed over.
innerJoin2Select(keys, merge, H, left, right) ==
    IF /\ left # Null
       /\ right # Null
       /\ LooselyEqual(Get(H.objs[left], keys.leftKey),
                       Get(H.objs[right], keys.rightKey))
    THEN CallMerge2(merge, H, left, right)
    ELSE Return(H, Null)

\* The callback of the second version's innerJoin, with the keys it uses.
Select2(merge, leftKey, rightKey) ==
    [fn |-> "innerJoin2", pass |-> "direct", merge |-> merge,
     leftKey |-> leftKey, rightKey |-> rightKey]

\* The function expression of join fn applied to (a, b).
ApplyJoinSelect(select, H, a, b) ==
    CASE select.fn = "innerJoin" -> innerJoinSelect(select.merge, H, a, b)
      [] select.fn = "innerJoin2" -> innerJoin2Select(select, select.merge, H, a, b)
      [] select.fn = "outerJoin" -> outerJoinSelect(select.merge, H, a, b)
      [] select.fn = "leftJoin" -> leftJoinSelect(select.merge, H, a, b)
      [] select.fn = "rightJoin" -> rightJoinSelect(select.merge, H, a, b)
      [] select.fn = "leftExcludingJoin" ->
            leftExcludingJoinSelect(select.merge, H, a, b)
      [] select.fn = "rightExcludingJoin" ->
            rightExcludingJoinSelect(select.merge, H, a, b)
      [] OTHER -> outerExcludingJoinSelect(select.merge, H, a, b)

\* ApplySelect with a right pass that forwards every pair to select.
ApplySelectUnguarded(select, H, a, b) ==
    ApplyJoinSelect(select, H,
                    IF select.pass = "right" THEN b ELSE a,
                    IF select.pass = "right" THEN a ELSE b)

\* select(row, entry) as leftIterate calls it.  The callbacks of
\* leftRightIterate: function(left, right) { return select(left, right); }
\* and function(right, left) { if (right && !left) return select(left, right); }
ApplySelect(select, H, a, b) ==
    IF select.pass = "right" /\ ~(a # Null /\ b = Null) THEN Return(H, Null)
    ELSE ApplyJoinSelect(select, H,
                         IF select.pass = "right" THEN b ELSE a,
                         IF select.pass = "right" THEN a ELSE b)

(***************************************************************************)
(* leftIterate, leftRightIterate and the seven join operations.            *)
(***************************************************************************)
\* The first loop of leftIterate, one right-hand element: reading the key of
\* an element that is null throws a TypeError.
BuildStep(H, rightKey, st, row) ==
    IF st.thrown THEN st
    ELSE IF row = Null THEN [st EXCEPT !.thrown = TRUE]
    ELSE IndexAdd(st.index, ToPropertyKey(Get(H.objs[row], rightKey)), row)

\* for (i = 0, len = right.length; i < len; i++) { ... }
BuildIndex(H, right, rightKey) ==
    LET F[i \in 0..Len(H.arrs[right])] ==
            IF i = 0 THEN [thrown |-> FALSE, index |-> EmptyIndex]
            ELSE BuildStep(H, rightKey, F[i - 1], H.arrs[right][i])
    IN  F[Len(H.arrs[right])]

\* PushRecord taking a falsy record for a failure: if (!record) throw ...
PushRecordOrThrow(result, record) ==
    IF record.thrown \/ record.val = Null THEN Throw(record.H)
    ELSE Return(Push(record.H, result, record.val), Null)

\* if (record) result.push(record); where record is what select left.
PushRecord(result, record) ==
    IF record.thrown THEN Throw(record.H)
    ELSE IF record.val # Null
    THEN Return(Push(record.H, result, record.val), Null)
    ELSE Return(record.H, Null)

\* function(entry) { record = select(row, entry);
\*                   if (record) result.push(record); }
\* st is the heap with the exception flag; an exception ends the iteration.
EntryStep(result, row, select, st, entry) ==
    IF st.thrown THEN st
    ELSE PushRecord(result, ApplySelect(select, st.H, row, entry))

\* entries.forEach(...)
ForEachEntry(result, row, select, st, entries) ==
    LET F[n \in 0..Len(entries)] ==
            IF n = 0 THEN st
            ELSE EntryStep(result, row, select, F[n - 1], entries[n])
    IN  F[Len(entries)]

\* The second loop of leftIterate, one left-hand element.
\* entries = index[row[leftKey]] || [ null ]; forEach throws a TypeError
\* when entries is not an array.
VisitStep(index, result, leftKey, select, st, row) ==
    IF st.thrown THEN st
    ELSE IF row = Null THEN Throw(st.H)
    ELSE LET found == IndexGet(index, ToPropertyKey(Get(st.H.objs[row], leftKey)))
         IN  IF Truthy(found) /\ found.t # "array" THEN Throw(st.H)
             ELSE ForEachEntry(result, row, select, st,
                               IF Truthy(found) THEN found.a ELSE <<Null>>)

\* for (i = 0, len = left.length; i < len; i++) { ... } over the index the
\* first loop built; nothing is visited when the first loop threw.
VisitLeft(H, left, built, result, leftKey, select) ==
    LET F[i \in 0..Len(H.arrs[left])] ==
            IF i = 0 THEN Return(H, Null)
            ELSE VisitStep(built.index, result, leftKey, select, F[i - 1],
                           H.arrs[left][i])
    IN  IF built.thrown THEN Throw(H) ELSE F[Len(H.arrs[left])]

\* return result; unless one of the loops threw.
ReturnResult(st, result) ==
    IF st.thrown THEN Throw(st.H) ELSE Return(st.H, result)

\* leftIterate catching what its loops throw and returning the rows
\* collected so far.
leftIterateCaught(H, left, right, leftKey, rightKey, select) ==
    Return(VisitLeft(AllocArray(H), left,
                     BuildIndex(AllocArray(H), right, rightKey),
                     NewArray(H), leftKey, select).H,
           NewArray(H))

\* function leftIterate(left, right, leftKey, rightKey, select)
\* var result = [] allocates the array the function returns.
leftIterate(H, left, right, leftKey, rightKey, select) ==
    ReturnResult(VisitLeft(AllocArray(H), left,
                           BuildIndex(AllocArray(H), right, rightKey),
                           NewArray(H), leftKey, select),
                 NewArray(H))

\* leftResult.push.apply(leftResult, rightResult)
PushAll(H, target, source) ==
    [H EXCEPT !.arrs[target] = @ \o H.arrs[source]]

\* Combine with rightResult.push.apply(rightResult, leftResult) and
\* return rightResult: the second pass's rows come first.
CombineRightFirst(leftResult, rightResult) ==
    IF rightResult.thrown THEN rightResult
    ELSE Return(PushAll(rightResult.H, rightResult.val, leftResult), rightResult.val)

\* leftResult.push.apply(leftResult, rightResult); return leftResult;
\* unless the second pass threw.
Combine(leftResult, rightResult) ==
    IF rightResult.thrown THEN rightResult
    ELSE Return(PushAll(rightResult.H, leftResult, rightResult.val), leftResult)

\* var rightResult = leftIterate(right, left, rightKey, leftKey, ...) and
\* what follows it, unless the first pass threw.
RightPass(leftResult, left, right, leftKey, rightKey, select) ==
    IF leftResult.thrown THEN leftResult
    ELSE Combine(leftResult.val,
                 leftIterate(leftResult.H, right, left, rightKey, leftKey,
                             [select EXCEPT !.pass = "right"]))

\* function leftRightIterate(left, right, leftKey, rightKey, select)
leftRightIterate(H, left, right, leftKey, rightKey, select) ==
    RightPass(leftIterate(H, left, right, leftKey, rightKey,
                          [select EXCEPT !.pass = "left"]),
              left, right, leftKey, rightKey, select)

\* exports.innerJoin
innerJoin(H, left, right, leftKey, rightKey, merge) ==
    leftIterate(H, left, right, leftKey, rightKey, Select("innerJoin", merge))

\* exports.innerJoin of the second version
innerJoin2(H, left, right, leftKey, rightKey, merge) ==
    leftIterate(H, left, right, leftKey, rightKey, Select2(merge, leftKey, rightKey))

\* exports.outerJoin
outerJoin(H, left, right, leftKey, rightKey, merge) ==
    leftRightIterate(H, left, right, leftKey, rightKey, Select("outerJoin", merge))

\* exports.leftJoin = exports.leftOuterJoin
leftJoin(H, left, right, leftKey, rightKey, merge) ==
    leftIterate(H, left, right, leftKey, rightKey, Select("leftJoin", merge))

\* exports.rightJoin = exports.rightOuterJoin
rightJoin(H, left, right, leftKey, rightKey, merge) ==
    leftIterate(H, right, left, rightKey, leftKey, Select("rightJoin", merge))

\* exports.leftExcludingJoin
leftExcludingJoin(H, left, right, leftKey, rightKey, merge) ==
    leftIterate(H, left, right, leftKey, rightKey, Select("leftExcludingJoin", merge))

\* exports.rightExcludingJoin
rightExcludingJoin(H, left, right, leftKey, rightKey, merge) ==
    leftIterate(H, right, left, rightKey, leftKey, Select("rightExcludingJoin", merge))

\* exports.outerExcludingJoin
outerExcludingJoin(H, left, right, leftKey, rightKey, merge) ==
    leftRightIterate(H, left, right, leftKey, rightKey,
                     Select("outerExcludingJoin", merge))

(***************************************************************************)
(* The example script: people and property are built once, then every join *)
(* of allJoins is called on them in turn and its result is printed.        *)
(***************************************************************************)
VARIABLES
    heap,       \* the JavaScript heap: [objs, arrs]
    input,      \* the heap as the script built it, before any call
    merge,      \* the merge argument the script passes to every join
    j,          \* position in allJoins of the next call
    result,     \* the script's variable result: the array the last call returned
    output      \* what was printed for each join: its rows, or that it threw

vars == <<heap, input, merge, j, result, output>>

\* var people = [...], var property = [...]: the first two arrays allocated.
people == 1
property == 2

allJoins == <<"innerJoin", "outerJoin", "leftJoin", "rightJoin",
              "leftExcludingJoin", "rightExcludingJoin", "outerExcludingJoin">>

\* An element of an input array: a record with this key value, a record with
\* no key property (Absent), or no record at all (null).
NoRecord == [t |-> "norecord", n |-> 0, s |-> ""]

PersonName(i) == CASE i = 1 -> "Joe" [] i = 2 -> "Julie" [] i = 3 -> "Mark" [] OTHER -> "Ann"
Location(i) == CASE i = 1 -> "Main" [] i = 2 -> "West" [] i = 3 -> "Gothard"
                 [] i = 4 -> "AveK" [] OTHER -> "Hwy"

\* { name: ..., accountId: key } with a tag both sides carry
Person(i, key) == [EmptyRecord EXCEPT !["accountId"] = key,
                                      !["name"] = Str(PersonName(i)),
                                      !["tag"] = Str("L")]
\* { pid: key, loc: ... } with a tag both sides carry
Property(i, key) == [EmptyRecord EXCEPT !["pid"] = key,
                                        !["loc"] = Str(Location(i)),
                                        !["tag"] = Str("R")]

SeqsUpTo(S, n) == UNION {[1..k -> S] : k \in 0..n}

\* An array literal evaluated into arr: side tells whose records it holds.
BuildArray(H, arr, keys, side) ==
    LET F[i \in 0..Len(keys)] ==
            IF i = 0 THEN H
            ELSE IF keys[i] = NoRecord THEN Push(F[i - 1], arr, Null)
            ELSE Push(AllocObject(F[i - 1], IF side = "people" THEN Person(i, keys[i])
                                             ELSE Property(i, keys[i])),
                      arr, NewObject(F[i - 1]))
    IN  F[Len(keys)]

\* The heap after the two array literals are evaluated: people first.
InitialHeap(lkeys, rkeys) ==
    BuildArray(BuildArray([objs |-> <<>>, arrs |-> <<<<>>, <<>>>>], people, lkeys, "people"),
               property, rkeys, "property")

NotCalled == [st |-> "none", rows |-> <<>>]

\* JSON.stringify(result): the rows' contents, in order.
Stringify(H, arr) == [i \in 1..Len(H.arrs[arr]) |-> H.objs[H.arrs[arr][i]]]

InitWith(elements, merges) ==
    /\ \E lkeys \in SeqsUpTo(elements, MaxLeft), rkeys \in SeqsUpTo(elements, MaxRight) :
          /\ heap = InitialHeap(lkeys, rkeys)
          /\ input = heap
    /\ merge \in merges
    /\ j = 1
    /\ result = Null
    /\ output = [op \in {allJoins[i] : i \in 1..Len(allJoins)} |-> NotCalled]

\* result = joins[j](people, property, 'accountId', 'pid', merge);
\* console.log(JSON.stringify(result))
\* r is what the call left.  A call that throws assigns nothing to result.
Finish(op, r) ==
    /\ heap' = r.H
    /\ result' = IF r.thrown THEN result ELSE r.val
    /\ output' = [output EXCEPT ![op] =
                    IF r.thrown THEN [st |-> "threw", rows |-> <<>>]
                    ELSE [st |-> "returned", rows |-> Stringify(r.H, r.val)]]
    /\ j' = j + 1
    /\ UNCHANGED <<input, merge>>

Ready(op) == j <= Len(allJoins) /\ allJoins[j] = op

CallInnerJoin ==
    /\ Ready("innerJoin")
    /\ Finish("innerJoin", innerJoin(heap, people, property, "accountId", "pid", merge))

\* The script run on the second version of joins.js.
CallInnerJoin2 ==
    /\ Ready("innerJoin")
    /\ Finish("innerJoin", innerJoin2(heap, people, property, "accountId", "pid", merge))

CallOuterJoin ==
    /\ Ready("outerJoin")
    /\ Finish("outerJoin", outerJoin(heap, people, property, "accountId", "pid", merge))

CallLeftJoin ==
    /\ Ready("leftJoin")
    /\ Finish("leftJoin", leftJoin(heap, people, property, "accountId", "pid", merge))

CallRightJoin ==
    /\ Ready("rightJoin")
    /\ Finish("rightJoin", rightJoin(heap, people, property, "accountId", "pid", merge))

CallLeftExcludingJoin ==
    /\ Ready("leftExcludingJoin")
    /\ Finish("leftExcludingJoin",
              leftExcludingJoin(heap, people, property, "accountId", "pid", merge))

CallRightExcludingJoin ==
    /\ Ready("rightExcludingJoin")
    /\ Finish("rightExcludingJoin",
              rightExcludingJoin(heap, people, property, "accountId", "pid", merge))

CallOuterExcludingJoin ==
    /\ Ready("outerExcludingJoin")
    /\ Finish("outerExcludingJoin",
              outerExcludingJoin(heap, people, property, "accountId", "pid", merge))

Next ==
    \/ CallInnerJoin
    \/ CallOuterJoin
    \/ CallLeftJoin
    \/ CallRightJoin
    \/ CallLeftExcludingJoin
    \/ CallRightExcludingJoin
    \/ CallOuterExcludingJoin

\* Records as the examples have them: a number or a numeric string as key,
\* or no key property.  The script passes no merge or its custom merge.
OrdinaryKeys == {Num(1), Str("1"), Num(2), Absent}

Init == InitWith(OrdinaryKeys, {Merge("undefined"), Merge("custom")})

Spec == Init /\ [][Next]_vars

\* Inputs on which a join can fail: arrays with a null element and merges
\* that throw.
InitErr == InitWith({Num(1), Num(2), NoRecord}, {Merge("derefLoc"), Merge("derefName")})

SpecErr == InitErr /\ [][Next]_vars

\* The script run on the second version of joins.js, whose other six joins
\* are those of the first version called with a merge.
Next2 ==
    \/ CallInnerJoin2
    \/ CallOuterJoin
    \/ CallLeftJoin
    \/ CallRightJoin
    \/ CallLeftExcludingJoin
    \/ CallRightExcludingJoin
    \/ CallOuterExcludingJoin

\* Keys that tell a comparison of property names from a loose equality:
\* "01" == 1 but they name two properties; undefined names the property
\* "undefined" but is not loosely equal to that string.
CoercedKeys == {Num(1), Str("1"), Str("01"), Str("undefined"), Absent}

InitCoerce == InitWith(CoercedKeys, {Merge("custom")})

Spec2 == InitCoerce /\ [][Next2]_vars

\* Keys that name a member of the index array: its own property length, the
\* inherited push, and "undefined", the name a missing key converts to.
MemberKeys == {Num(1), Str("length"), Str("push"), Str("undefined"), Absent}

InitMembers == InitWith(MemberKeys, {Merge("undefined")})

SpecMembers == InitMembers /\ [][Next]_vars

\* A merge that returns undefined for some pairs: the custom merge, which
\* skips a pair whose right side has no loc.
InitSkip == InitWith(OrdinaryKeys, {Merge("needsLoc")})

SpecSkip == InitSkip /\ [][Next]_vars

(***************************************************************************)
(* Vocabulary of the properties.  It speaks of the inputs as the script    *)
(* built them and of what was printed, not of the index.                   *)
(***************************************************************************)
nL == Len(input.arrs[people])
nR == Len(input.arrs[property])
LeftRecord(i) == input.objs[input.arrs[people][i]]
RightRecord(k) == input.objs[input.arrs[property][k]]

\* Left record i and right record k have matching keys.
Matches(i, k) ==
    LooselyEqual(Get(LeftRecord(i), "accountId"), Get(RightRecord(k), "pid"))
MatchingPairs == {p \in (1..nL) \X (1..nR) : Matches(p[1], p[2])}
MatchesOfLeft(i) == {k \in 1..nR : Matches(i, k)}
MatchesOfRight(k) == {i \in 1..nL : Matches(i, k)}

Called(op) == output[op].st # "none"
\* The call of op is the one that has just ended.
JustCalled(op) == j > 1 /\ allJoins[j - 1] = op
Returned(op) == output[op].st = "returned"
Threw(op) == output[op].st = "threw"
Rows(op) == output[op].rows

\* The merges that return a record for every pair, as the signature of
\* merge says: the default merge and the example's custom merge.
RecordMerge == merge.fn \in {"undefined", "custom"}
DefaultMergeUsed == merge.fn = "undefined"

\* Which left record and which right record a printed row was merged from,
\* read off the name and the loc it carries; 0 when that side was empty.
LeftOf(row) ==
    LET name == Get(row, IF DefaultMergeUsed THEN "name" ELSE "accountRep")
    IN  IF \E i \in 1..nL : name = Str(PersonName(i))
        THEN CHOOSE i \in 1..nL : name = Str(PersonName(i))
        ELSE 0
RightOf(row) ==
    LET loc == Get(row, IF DefaultMergeUsed THEN "loc" ELSE "address")
    IN  IF \E k \in 1..nR : loc = Str(Location(k))
        THEN CHOOSE k \in 1..nR : loc = Str(Location(k))
        ELSE 0
\* How many printed rows of op were merged from left i and right k.
CountRows(op, i, k) ==
    Cardinality({n \in 1..Len(Rows(op)) :
                    LeftOf(Rows(op)[n]) = i /\ RightOf(Rows(op)[n]) = k})
UnmatchedLeft == {i \in 1..nL : MatchesOfLeft(i) = {}}
UnmatchedRight == {k \in 1..nR : MatchesOfRight(k) = {}}

(***************************************************************************)
(* C1: with the default merge, innerJoin returns exactly one row for every *)
(* (left record, right record) pair whose keys match and no other row; its *)
(* length is the number of matching pairs (the sum over the left records   *)
(* of their match counts), so an unmatched record of either side gives no  *)
(* row.                                                                    *)
(***************************************************************************)
C1_InnerJoinOneRowPerMatchingPair ==
    (DefaultMergeUsed /\ JustCalled("innerJoin")) =>
        /\ Returned("innerJoin")
        /\ Len(Rows("innerJoin")) = Cardinality(MatchingPairs)
        /\ \A i \in 1..nL, k \in 1..nR :
              CountRows("innerJoin", i, k) = IF Matches(i, k) THEN 1 ELSE 0
        /\ \A n \in 1..Len(Rows("innerJoin")) :
              LeftOf(Rows("innerJoin")[n]) # 0 /\ RightOf(Rows("innerJoin")[n]) # 0

\* innerJoin has run on a left record with two matches and a left record
\* with none.
C1_Witness ==
    /\ DefaultMergeUsed /\ JustCalled("innerJoin") /\ Returned("innerJoin")
    /\ \E i \in 1..nL : Cardinality(MatchesOfLeft(i)) >= 2
    /\ UnmatchedLeft # {}
    /\ Len(Rows("innerJoin")) = 2

(***************************************************************************)
(* C2: for a merge that returns a record for every pair, the length of     *)
(* leftJoin's result is the sum over the left records of                   *)
(* max(matchCount, 1); it is at least len(L), every left record is in at   *)
(* least one row, and an unmatched one is in exactly one row, merged with  *)
(* an empty right side.                                                    *)
(***************************************************************************)
C2_LeftJoinLength ==
    (RecordMerge /\ JustCalled("leftJoin")) =>
        /\ Returned("leftJoin")
        /\ Len(Rows("leftJoin")) = Cardinality(MatchingPairs) + Cardinality(UnmatchedLeft)
        /\ Len(Rows("leftJoin")) >= nL
        /\ \A i \in 1..nL :
              /\ \E n \in 1..Len(Rows("leftJoin")) : LeftOf(Rows("leftJoin")[n]) = i
              /\ i \in UnmatchedLeft =>
                    /\ CountRows("leftJoin", i, 0) = 1
                    /\ \A k \in 1..nR : CountRows("leftJoin", i, k) = 0

\* leftJoin has run on a left record with no match and one with two.
C2_Witness ==
    /\ RecordMerge /\ JustCalled("leftJoin") /\ Returned("leftJoin")
    /\ UnmatchedLeft # {}
    /\ \E i \in 1..nL : Cardinality(MatchesOfLeft(i)) >= 2
    /\ Len(Rows("leftJoin")) = 3

(***************************************************************************)
(* C3: in outerJoin's result every record of L and every record of R is in *)
(* at least one row, every matched pair is in exactly one row, the second  *)
(* pass emits no row for a right record that has a left match, and a right *)
(* record with no left match is in exactly one row.                        *)
(***************************************************************************)
C3_OuterJoinComplete ==
    (RecordMerge /\ JustCalled("outerJoin")) =>
        /\ Returned("outerJoin")
        /\ \A i \in 1..nL : \E n \in 1..Len(Rows("outerJoin")) :
              LeftOf(Rows("outerJoin")[n]) = i
        /\ \A k \in 1..nR : \E n \in 1..Len(Rows("outerJoin")) :
              RightOf(Rows("outerJoin")[n]) = k
        /\ \A i \in 1..nL, k \in 1..nR :
              CountRows("outerJoin", i, k) = IF Matches(i, k) THEN 1 ELSE 0
        /\ \A k \in 1..nR :
              CountRows("outerJoin", 0, k) = IF k \in UnmatchedRight THEN 1 ELSE 0

\* outerJoin has run on a right record matched by two left records and a
\* right record matched by none.
C3_Witness ==
    /\ RecordMerge /\ JustCalled("outerJoin") /\ Returned("outerJoin")
    /\ \E k \in 1..nR : Cardinality(MatchesOfRight(k)) >= 2
    /\ UnmatchedRight # {}
    /\ \E n \in 1..Len(Rows("outerJoin")) : LeftOf(Rows("outerJoin")[n]) = 0

(***************************************************************************)
(* C4: the rows of leftJoin whose right side is empty are, in order, the   *)
(* rows of leftExcludingJoin; leftExcludingJoin has no row for a left      *)
(* record with a right match.                                              *)
(***************************************************************************)
RightSideEmpty(row) == RightOf(row) = 0

C4_ExcludingComplement ==
    JustCalled("leftExcludingJoin") =>
        /\ Returned("leftJoin") /\ Returned("leftExcludingJoin")
        /\ SelectSeq(Rows("leftJoin"), RightSideEmpty) = Rows("leftExcludingJoin")
        /\ \A n \in 1..Len(Rows("leftExcludingJoin")) :
              LeftOf(Rows("leftExcludingJoin")[n]) \in UnmatchedLeft

\* Both joins have run on a matched left record followed by an unmatched one.
C4_Witness ==
    /\ JustCalled("leftExcludingJoin") /\ Returned("leftJoin") /\ Returned("leftExcludingJoin")
    /\ nL = 2 /\ 1 \notin UnmatchedLeft /\ 2 \in UnmatchedLeft
    /\ Len(Rows("leftExcludingJoin")) = 1

(***************************************************************************)
(* C5: rightJoin(L, R, leftKey, rightKey, m) is                            *)
(* leftJoin(R, L, rightKey, leftKey, m') with m'(a, b) = m(b, a): it has a *)
(* row for every record of R, in the order of R, an unmatched record of R  *)
(* in exactly one row whose left side is empty, and merge gets the record  *)
(* of L first and the record of R second.                                  *)
(***************************************************************************)
MirroredLeftJoin == leftJoin(input, property, people, "pid", "accountId", Swapped(merge))

C5_RightJoinMirrorsLeftJoin ==
    JustCalled("rightJoin") =>
        /\ Returned("rightJoin") /\ ~MirroredLeftJoin.thrown
        /\ Rows("rightJoin") = Stringify(MirroredLeftJoin.H, MirroredLeftJoin.val)
        /\ \A n \in 1..Len(Rows("rightJoin")) :
              /\ RightOf(Rows("rightJoin")[n]) # 0
              /\ LeftOf(Rows("rightJoin")[n]) # 0 =>
                    Matches(LeftOf(Rows("rightJoin")[n]), RightOf(Rows("rightJoin")[n]))
              /\ n > 1 => RightOf(Rows("rightJoin")[n - 1]) <= RightOf(Rows("rightJoin")[n])
        /\ \A k \in 1..nR :
              CountRows("rightJoin", 0, k) = IF k \in UnmatchedRight THEN 1 ELSE 0
        /\ \A i \in 1..nL, k \in 1..nR :
              CountRows("rightJoin", i, k) = IF Matches(i, k) THEN 1 ELSE 0

\* rightJoin has run on an unmatched right record followed by a matched one.
C5_Witness ==
    /\ JustCalled("rightJoin") /\ Returned("rightJoin")
    /\ nR >= 2 /\ 1 \in UnmatchedRight /\ 2 \notin UnmatchedRight
    /\ LeftOf(Rows("rightJoin")[1]) = 0 /\ LeftOf(Rows("rightJoin")[2]) # 0

(***************************************************************************)
(* C6: outerExcludingJoin's result is leftExcludingJoin's result followed  *)
(* by rightExcludingJoin's: one row for each record of L that matches no   *)
(* record of R, then one row for each record of R that matches no record   *)
(* of L, and no row from a record that is in a matched pair.               *)
(***************************************************************************)
C6_OuterExcludingIsBothExcludings ==
    JustCalled("outerExcludingJoin") =>
        /\ Returned("outerExcludingJoin")
        /\ Returned("leftExcludingJoin") /\ Returned("rightExcludingJoin")
        /\ Rows("outerExcludingJoin")
              = Rows("leftExcludingJoin") \o Rows("rightExcludingJoin")
        /\ Len(Rows("outerExcludingJoin"))
              = Cardinality(UnmatchedLeft) + Cardinality(UnmatchedRight)
        /\ \A i \in UnmatchedLeft : CountRows("outerExcludingJoin", i, 0) = 1
        /\ \A k \in UnmatchedRight : CountRows("outerExcludingJoin", 0, k) = 1
        /\ \A n \in 1..Len(Rows("outerExcludingJoin")) :
              LET row == Rows("outerExcludingJoin")[n]
              IN  /\ LeftOf(row) # 0 => LeftOf(row) \in UnmatchedLeft
                  /\ RightOf(row) # 0 => RightOf(row) \in UnmatchedRight
                  /\ n <= Cardinality(UnmatchedLeft) <=> LeftOf(row) # 0

\* outerExcludingJoin has run on inputs with a matched pair and an
\* unmatched record on each side.
C6_Witness ==
    /\ JustCalled("outerExcludingJoin") /\ Returned("outerExcludingJoin")
    /\ MatchingPairs # {} /\ UnmatchedLeft # {} /\ UnmatchedRight # {}
    /\ Len(Rows("outerExcludingJoin")) >= 2

(***************************************************************************)
(* C7: the record defaultMerge(left, right) returns has the own fields of  *)
(* left and of right; a field of right has right's value, a field of left  *)
(* alone has left's value, and an empty record gives no field.  Checked on *)
(* every row outerJoin produces with the default merge: a matched pair,    *)
(* a left record with the empty record, the empty record with a right one. *)
(***************************************************************************)
\* The pairs outerJoin merges, in order; 0 stands for the empty record.
PairsOfLeft(i) ==
    IF MatchesOfLeft(i) = {} THEN <<<<i, 0>>>>
    ELSE SelectSeq([k \in 1..nR |-> <<i, k>>], LAMBDA p : Matches(p[1], p[2]))
LeftPassPairs ==
    LET F[i \in 0..nL] == IF i = 0 THEN <<>> ELSE F[i - 1] \o PairsOfLeft(i)
    IN  F[nL]
RightPassPairs ==
    SelectSeq([k \in 1..nR |-> <<0, k>>], LAMBDA p : p[2] \in UnmatchedRight)

\* The union of two records in which the second wins.
UnionRecord(l, r) == [f \in Fields |-> IF r[f] # Absent THEN r[f] ELSE l[f]]
ExpectedRow(p) ==
    UnionRecord(IF p[1] = 0 THEN EmptyRecord ELSE LeftRecord(p[1]),
                IF p[2] = 0 THEN EmptyRecord ELSE RightRecord(p[2]))

C7_DefaultMergeRightWins ==
    (DefaultMergeUsed /\ JustCalled("outerJoin")) =>
        /\ Returned("outerJoin")
        /\ Rows("outerJoin")
              = [n \in 1..Len(LeftPassPairs \o RightPassPairs) |->
                    ExpectedRow((LeftPassPairs \o RightPassPairs)[n])]
        /\ \A n \in 1..Len(Rows("outerJoin")) :
              LET row == Rows("outerJoin")[n]
              IN  (LeftOf(row) # 0 /\ RightOf(row) # 0) =>
                     /\ row["tag"] = Str("R")
                     /\ row["name"] = LeftRecord(LeftOf(row))["name"]
                     /\ row["accountId"] = LeftRecord(LeftOf(row))["accountId"]
                     /\ row["pid"] = RightRecord(RightOf(row))["pid"]
                     /\ row["loc"] = RightRecord(RightOf(row))["loc"]

\* The default merge has merged a matched pair (tag is a field of both), a
\* left record with the empty record and the empty record with a right one.
C7_Witness ==
    /\ DefaultMergeUsed /\ JustCalled("outerJoin") /\ Returned("outerJoin")
    /\ \E n \in 1..Len(Rows("outerJoin")) :
          LeftOf(Rows("outerJoin")[n]) # 0 /\ RightOf(Rows("outerJoin")[n]) # 0
             /\ Rows("outerJoin")[n]["tag"] = Str("R")
    /\ \E n \in 1..Len(Rows("outerJoin")) :
          RightOf(Rows("outerJoin")[n]) = 0 /\ Rows("outerJoin")[n]["tag"] = Str("L")
    /\ \E n \in 1..Len(Rows("outerJoin")) : LeftOf(Rows("outerJoin")[n]) = 0

(***************************************************************************)
(* C8: in the rows leftIterate produces (innerJoin, leftJoin,              *)
(* leftExcludingJoin, the first pass of outerJoin) the rows of left record *)
(* i come before the rows of left record j whenever i < j, and the rows of *)
(* one left record come in the order of its matches in the right array,    *)
(* each match once.                                                        *)
(***************************************************************************)
\* The rows of the left-driven pass: all rows of a single-pass join, the
\* rows with a left side of outerJoin.
LeftDrivenRows(op) == SelectSeq(Rows(op), LAMBDA row : LeftOf(row) # 0)

InInputOrder(rows) ==
    \A n \in 1..Len(rows) : \A m \in 1..Len(rows) :
        n < m =>
            \/ LeftOf(rows[n]) < LeftOf(rows[m])
            \/ LeftOf(rows[n]) = LeftOf(rows[m]) /\ RightOf(rows[n]) < RightOf(rows[m])

C8_RowsInInputOrder ==
    \A op \in {"innerJoin", "leftJoin", "leftExcludingJoin", "outerJoin"} :
        (RecordMerge /\ JustCalled(op)) =>
            /\ Returned(op)
            /\ InInputOrder(LeftDrivenRows(op))
            /\ op # "outerJoin" => LeftDrivenRows(op) = Rows(op)
            /\ op = "innerJoin" => Len(Rows(op)) = Cardinality(MatchingPairs)

\* innerJoin has run on a left record with two matches: two rows, the
\* earlier right record first; leftJoin on two left records.
C8_Witness ==
    /\ RecordMerge /\ JustCalled("innerJoin") /\ Returned("innerJoin")
    /\ nL = 1 /\ nR = 2 /\ MatchesOfLeft(1) = {1, 2}
    /\ Len(Rows("innerJoin")) = 2
    /\ RightOf(Rows("innerJoin")[1]) = 1 /\ RightOf(Rows("innerJoin")[2]) = 2

(***************************************************************************)
(* C9: with the default merge a join leaves both input arrays and every    *)
(* input record as they were, returns an array that is neither input       *)
(* array, whose rows are records allocated by the call and not input       *)
(* records, and gives on the heap it left what it gives on the inputs as   *)
(* first built.                                                            *)
(***************************************************************************)
JoinOn(op, H) ==
    CASE op = "innerJoin" -> innerJoin(H, people, property, "accountId", "pid", merge)
      [] op = "outerJoin" -> outerJoin(H, people, property, "accountId", "pid", merge)
      [] op = "leftJoin" -> leftJoin(H, people, property, "accountId", "pid", merge)
      [] op = "rightJoin" -> rightJoin(H, people, property, "accountId", "pid", merge)
      [] op = "leftExcludingJoin" ->
            leftExcludingJoin(H, people, property, "accountId", "pid", merge)
      [] op = "rightExcludingJoin" ->
            rightExcludingJoin(H, people, property, "accountId", "pid", merge)
      [] OTHER -> outerExcludingJoin(H, people, property, "accountId", "pid", merge)

InputsUnchanged ==
    /\ heap.arrs[people] = input.arrs[people]
    /\ heap.arrs[property] = input.arrs[property]
    /\ \A ref \in 1..Len(input.objs) : heap.objs[ref] = input.objs[ref]

C9_JoinsLeaveInputsAlone ==
    \A op \in DOMAIN output :
        (DefaultMergeUsed /\ JustCalled(op)) =>
            /\ Returned(op)
            /\ InputsUnchanged
            /\ result \notin {Null, people, property}
            /\ \A n \in 1..Len(heap.arrs[result]) :
                  heap.arrs[result][n] > Len(input.objs)
            /\ Rows(op) = Stringify(heap, result)
            /\ LET again == JoinOn(op, heap)
                   first == JoinOn(op, input)
               IN  /\ ~again.thrown /\ ~first.thrown
                   /\ Stringify(again.H, again.val) = Rows(op)
                   /\ Stringify(first.H, first.val) = Rows(op)
                   /\ again.val # result

\* The last join has run after six others on inputs with matched and
\* unmatched records, and returned rows.
C9_Witness ==
    /\ DefaultMergeUsed /\ JustCalled("outerExcludingJoin")
    /\ \A op \in DOMAIN output : Returned(op)
    /\ MatchingPairs # {} /\ UnmatchedLeft # {} /\ UnmatchedRight # {}
    /\ Len(Rows("outerJoin")) >= 3 /\ Len(heap.arrs[result]) >= 2
    /\ InputsUnchanged

(***************************************************************************)
(* C10: when the merge callback throws on a pair the join gives it, or an  *)
(* element of an input array is not a record, the join throws: the caller  *)
(* gets no result, not even the rows made before the failure.  So it is    *)
(* for the single-pass joins and for either pass of outerJoin and          *)
(* outerExcludingJoin.                                                     *)
(***************************************************************************)
HasNonRecord ==
    \/ \E i \in 1..nL : input.arrs[people][i] = Null
    \/ \E k \in 1..nR : input.arrs[property][k] = Null

\* The merge throws on a pair op gives it: derefLoc on an empty right side,
\* derefName on an empty left side.
MergeThrowsIn(op) ==
    \/ /\ merge.fn = "derefLoc"
       /\ op \in {"outerJoin", "leftJoin", "leftExcludingJoin", "outerExcludingJoin"}
       /\ UnmatchedLeft # {}
    \/ /\ merge.fn = "derefName"
       /\ op \in {"outerJoin", "rightJoin", "rightExcludingJoin", "outerExcludingJoin"}
       /\ UnmatchedRight # {}

MustThrow(op) == HasNonRecord \/ MergeThrowsIn(op)

C10_FailureLeavesNoResult ==
    [][\A op \in DOMAIN output :
          (Ready(op) /\ MustThrow(op)) =>
              /\ output'[op] = [st |-> "threw", rows |-> <<>>]
              /\ result' = result]_vars

\* outerJoin has thrown in its second pass, after its first pass made a row.
C10_Witness ==
    /\ JustCalled("outerJoin") /\ Threw("outerJoin")
    /\ ~HasNonRecord /\ merge.fn = "derefName"
    /\ MatchingPairs # {} /\ UnmatchedLeft = {} /\ UnmatchedRight # {}
    /\ Returned("innerJoin") /\ Len(Rows("innerJoin")) >= 1
    /\ result # Null /\ Stringify(heap, result) = Rows("innerJoin")

(***************************************************************************)
(* C11: a pair for which merge returns a falsy value gives no row and no   *)
(* error.  The result of a join is the sequence of the truthy values merge *)
(* returned, in the order of the calls: with the merge that returns        *)
(* undefined where the custom merge returns a record without address, it   *)
(* is the result under the custom merge without those rows, the other rows *)
(* being the same and in the same order.                                   *)
(***************************************************************************)
JoinWith(op, H, m) ==
    CASE op = "innerJoin" -> innerJoin(H, people, property, "accountId", "pid", m)
      [] op = "outerJoin" -> outerJoin(H, people, property, "accountId", "pid", m)
      [] op = "leftJoin" -> leftJoin(H, people, property, "accountId", "pid", m)
      [] op = "rightJoin" -> rightJoin(H, people, property, "accountId", "pid", m)
      [] op = "leftExcludingJoin" ->
            leftExcludingJoin(H, people, property, "accountId", "pid", m)
      [] op = "rightExcludingJoin" ->
            rightExcludingJoin(H, people, property, "accountId", "pid", m)
      [] OTHER -> outerExcludingJoin(H, people, property, "accountId", "pid", m)

\* What op prints when it is called on the inputs with merge m.
RowsWith(op, m) ==
    LET r == JoinWith(op, input, m)
    IN  IF r.thrown THEN <<>> ELSE Stringify(r.H, r.val)

HasAddress(row) == Get(row, "address") # Undefined

C11_FalsyMergeOmitsPair ==
    \A op \in DOMAIN output :
        (merge.fn = "needsLoc" /\ JustCalled(op)) =>
            /\ Returned(op)
            /\ Rows(op) = SelectSeq(RowsWith(op, Merge("custom")), HasAddress)

\* leftJoin has run with the skipping merge on a first left record without
\* a match, whose pair is skipped, and a second one with a match, whose row
\* is there.
C11_Witness ==
    /\ merge.fn = "needsLoc" /\ JustCalled("leftJoin") /\ Returned("leftJoin")
    /\ nL = 2 /\ 1 \in UnmatchedLeft /\ 2 \notin UnmatchedLeft
    /\ Len(Rows("leftJoin")) >= 1
    /\ Len(RowsWith("leftJoin", Merge("custom"))) > Len(Rows("leftJoin"))

(***************************************************************************)
(* C12: which records a join treats as matching.  As stated: those whose   *)
(* keys are loosely equal.  As the code has it: leftIterate pairs a left   *)
(* record with the right records indexed under the property name its key   *)
(* converts to, so two records match exactly when their keys convert to    *)
(* the same property name; 1 and "1" match, "01" and 1 do not although     *)
(* "01" == 1, and a missing key matches the string "undefined" although    *)
(* they are not loosely equal.  innerJoin of the second version emits a    *)
(* pair only when, besides, the keys are loosely equal.                    *)
(***************************************************************************)
\* String(a) === String(b) on key values, case by case.
SameName(a, b) ==
    CASE a.t = "number" /\ b.t = "number" -> a.n = b.n
      [] a.t = "string" /\ b.t = "string" -> a.s = b.s
      [] a.t = "number" /\ b.t = "string" -> b.s = NumToString(a.n)
      [] a.t = "string" /\ b.t = "number" -> a.s = NumToString(b.n)
      [] a.t = "undefined" /\ b.t = "string" -> b.s = "undefined"
      [] a.t = "string" /\ b.t = "undefined" -> a.s = "undefined"
      [] OTHER -> a.t = b.t

SameNamePairs ==
    {p \in (1..nL) \X (1..nR) :
        SameName(Get(LeftRecord(p[1]), "accountId"), Get(RightRecord(p[2]), "pid"))}

\* How many of rows were merged from left i and right k.
CountIn(rows, i, k) ==
    Cardinality({n \in 1..Len(rows) : LeftOf(rows[n]) = i /\ RightOf(rows[n]) = k})

\* The joins that go by the index alone treat exactly the pairs of rel as
\* matching: a row for each pair of rel and for no other pair, and a row
\* with an empty side for exactly the records that are in no pair of rel.
PairedBy(rel) ==
    /\ \A i \in 1..nL, k \in 1..nR :
          /\ CountIn(RowsWith("innerJoin", merge), i, k) = IF <<i, k>> \in rel THEN 1 ELSE 0
          /\ \A op \in {"outerJoin", "leftJoin", "rightJoin"} :
                CountRows(op, i, k) = IF <<i, k>> \in rel THEN 1 ELSE 0
          /\ \A op \in {"leftExcludingJoin", "rightExcludingJoin", "outerExcludingJoin"} :
                CountRows(op, i, k) = 0
    /\ \A i \in 1..nL :
          \A op \in {"outerJoin", "leftJoin", "leftExcludingJoin", "outerExcludingJoin"} :
              CountRows(op, i, 0) = IF \E k \in 1..nR : <<i, k>> \in rel THEN 0 ELSE 1
    /\ \A k \in 1..nR :
          \A op \in {"outerJoin", "rightJoin", "rightExcludingJoin", "outerExcludingJoin"} :
              CountRows(op, 0, k) = IF \E i \in 1..nL : <<i, k>> \in rel THEN 0 ELSE 1

AllReturned == \A op \in DOMAIN output : Returned(op)

\* C12 as the code has it.
C12_SamePropertyNameDecidesMatch ==
    JustCalled("outerExcludingJoin") =>
        /\ AllReturned
        /\ PairedBy(SameNamePairs)
        /\ \A i \in 1..nL, k \in 1..nR :
              CountRows("innerJoin", i, k) =
                  IF <<i, k>> \in SameNamePairs \cap MatchingPairs THEN 1 ELSE 0

\* C12 as stated: every join treats exactly the loosely equal pairs as
\* matching.
C12_LooseEqualityDecidesMatch ==
    JustCalled("outerExcludingJoin") =>
        /\ AllReturned
        /\ PairedBy(MatchingPairs)
        /\ \A i \in 1..nL, k \in 1..nR :
              CountRows("innerJoin", i, k) = IF Matches(i, k) THEN 1 ELSE 0

\* Every join has run on a left record keyed 1 and one without a key, and
\* right records keyed "01" and "undefined": the first pair is loosely
\* equal and not joined, the second is joined and not loosely equal.
C12_Witness ==
    /\ JustCalled("outerExcludingJoin") /\ AllReturned
    /\ nL = 2 /\ nR = 2
    /\ Get(LeftRecord(1), "accountId") = Num(1)
    /\ Get(LeftRecord(2), "accountId") = Undefined
    /\ Get(RightRecord(1), "pid") = Str("01")
    /\ Get(RightRecord(2), "pid") = Str("undefined")
    /\ Matches(1, 1) /\ CountRows("leftJoin", 1, 1) = 0 /\ CountRows("leftJoin", 1, 0) = 1
    /\ ~Matches(2, 2) /\ CountRows("leftJoin", 2, 2) = 1
    /\ CountRows("innerJoin", 2, 2) = 0

(***************************************************************************)
(* C13: leftIterate visits every left record: select is called once with   *)
(* each right record whose key matches and never with null when there is   *)
(* one, and once with null when there is none, whatever the key values: a  *)
(* record without the key field matches only the right records without it, *)
(* and "length" and "push" are keys like any other.  Read off leftJoin,    *)
(* whose select gives one row for each call.                               *)
(***************************************************************************)
C13_EveryLeftRecordVisited ==
    JustCalled("leftJoin") =>
        /\ Returned("leftJoin")
        /\ \A i \in 1..nL :
              /\ \A k \in 1..nR :
                    CountRows("leftJoin", i, k) = IF Matches(i, k) THEN 1 ELSE 0
              /\ CountRows("leftJoin", i, 0) = IF MatchesOfLeft(i) = {} THEN 1 ELSE 0

(***************************************************************************)
(* C14: the result of leftRightIterate is the rows of its left-driven pass *)
(* followed by the rows of its right-driven pass, and the right-driven     *)
(* pass calls select only for a right record with no left match, with the  *)
(* absent left first.  So outerJoin's result is leftJoin's followed by     *)
(* rightExcludingJoin's, and its length is the sum of their lengths; the   *)
(* rows after leftJoin's are one for each unmatched right record, in the   *)
(* order of the right array, with the left side empty.                     *)
(***************************************************************************)
\* The part of outerJoin's result that follows the rows of leftJoin.
SecondPassRows ==
    SubSeq(Rows("outerJoin"), Len(Rows("leftJoin")) + 1, Len(Rows("outerJoin")))

C14_OuterJoinIsLeftJoinThenRightExcluding ==
    JustCalled("rightExcludingJoin") =>
        /\ Returned("outerJoin") /\ Returned("leftJoin") /\ Returned("rightExcludingJoin")
        /\ Rows("outerJoin") = Rows("leftJoin") \o Rows("rightExcludingJoin")
        /\ Len(Rows("outerJoin")) =
              Len(Rows("leftJoin")) + Len(Rows("rightExcludingJoin"))
        /\ Len(SecondPassRows) = Cardinality(UnmatchedRight)
        /\ \A n \in 1..Len(SecondPassRows) :
              /\ LeftOf(SecondPassRows[n]) = 0
              /\ RightOf(SecondPassRows[n]) \in UnmatchedRight
              /\ \A m \in 1..(n - 1) :
                    RightOf(SecondPassRows[m]) < RightOf(SecondPassRows[n])

\* outerJoin, leftJoin and rightExcludingJoin have run on inputs with a
\* matched pair and an unmatched record on each side: both passes of
\* outerJoin gave rows.
C14_Witness ==
    /\ JustCalled("rightExcludingJoin")
    /\ Returned("outerJoin") /\ Returned("leftJoin") /\ Returned("rightExcludingJoin")
    /\ MatchingPairs # {} /\ UnmatchedLeft # {} /\ UnmatchedRight # {}
    /\ Len(Rows("leftJoin")) = 2 /\ Len(Rows("rightExcludingJoin")) = 1
    /\ Len(Rows("outerJoin")) = 3

(***************************************************************************)
(* C15: innerJoin, leftJoin and leftExcludingJoin go by one matching       *)
(* relation.  With a merge that returns a record for every pair, a row of  *)
(* leftJoin whose right side is a record has its pair in exactly one row   *)
(* of innerJoin and the left record in no row of leftExcludingJoin, a row  *)
(* whose right side is empty has its left record in exactly one row of     *)
(* leftExcludingJoin and in no row of innerJoin, and                       *)
(* len(leftJoin) = len(innerJoin) + len(leftExcludingJoin).  Stated of the *)
(* script run on the second version, whose innerJoin also tests            *)
(* left[leftKey] == right[rightKey].                                       *)
(***************************************************************************)
C15_InnerAndExcludingPartitionLeftJoin ==
    (merge.fn = "custom" /\ JustCalled("leftExcludingJoin")) =>
        /\ Returned("innerJoin") /\ Returned("leftJoin") /\ Returned("leftExcludingJoin")
        /\ Len(Rows("leftJoin")) =
              Len(Rows("innerJoin")) + Len(Rows("leftExcludingJoin"))
        /\ \A n \in 1..Len(Rows("leftJoin")) :
              LET i == LeftOf(Rows("leftJoin")[n])
                  k == RightOf(Rows("leftJoin")[n])
              IN  IF k # 0
                  THEN /\ CountRows("innerJoin", i, k) = 1
                       /\ CountRows("leftExcludingJoin", i, 0) = 0
                  ELSE /\ CountRows("leftExcludingJoin", i, 0) = 1
                       /\ \A kk \in 1..nR : CountRows("innerJoin", i, kk) = 0

====
